---- MODULE Spec2Model ----
(***************************************************************************)
(* Model of eyebraus/collections: the string-keyed Dict (src/dict/dict.ts) *)
(* and the List helpers (src/list/list.ts, held in collection.ts).         *)
(*                                                                         *)
(* The library is a set of pure functions over JavaScript objects and      *)
(* arrays.  Reference identity is observable (toBe / not.toBe), so the     *)
(* model keeps a heap: a sequence of objects, an object's identity being   *)
(* its index.  Every call of the library is one action; it allocates what  *)
(* the code allocates and stores what the code stores.                     *)
(***************************************************************************)
EXTENDS Integers, Sequences, FiniteSets, TLC

\* Calls are made while the heap holds fewer than MaxObjs objects.
MaxObjs == 3
\* Longest array of pairs handed to Dict(...).
MaxLen == 2
\* Longest array handed to List(...).
MaxItems == 3
\* Largest number of arguments handed to merge(...).
MaxArgs == 3

(***************************************************************************)
(* JavaScript values.  TValue extends Defined: the model's values are the  *)
(* numbers 0 and NaN (both falsy; NaN is not === to itself); map can       *)
(* produce 1.                                                              *)
(* Keys are strings: the empty string, "a", and "__proto__", which every   *)
(* plain object inherits from Object.prototype as an accessor.             *)
(***************************************************************************)
Values == {"0", "NaN"}

Keys == {"", "a", "__proto__"}

\* What a property read yields when nothing is found.
Undefined == "undefined"

\* What reading the inherited accessor __proto__ of a plain object yields.
ObjectPrototype == "[object Object.prototype]"

\* a === b on primitives.
StrictEq(a, b) == a = b /\ a # "NaN"

\* !!v
Truthy(v) == v \notin {"0", "NaN", "", Undefined}

Pair(a, b) == <<a, b>>

first(p) == p[1]

second(p) == p[2]

Something(v) == <<"Something", v>>

Nothing == <<"Nothing">>

\* isNone of @eyebraus/core: the value is one of the absent markers.
isNone(value) == value = Undefined

\* wrap of @eyebraus/core: Nothing for an absent value, else Something of it.
wrap(value) == IF isNone(value) THEN Nothing ELSE Something(value)

(***************************************************************************)
(* Objects.  A Dict is a plain object: its own enumerable properties in    *)
(* insertion order, and its prototype: <<>> stands for Object.prototype,    *)
(* <<a>> for the array a.  A List is an array.  A Dict<number> has kind     *)
(* "dict", a List<number> "list", a List<Pair<TKey, List<number>>> "groups" *)
(* and a Dict<List<number>> "ldict"; an inner array is held by content.     *)
(***************************************************************************)
EmptyObject == [kind |-> "dict", ents |-> <<>>, proto |-> <<>>]

ArrayOf(items) == [kind |-> "list", ents |-> items, proto |-> <<>>]

\* The index of key among o's own properties, 0 when it has none.
OwnIndex(o, key) ==
    IF \E i \in DOMAIN o.ents : o.ents[i][1] = key
    THEN CHOOSE i \in DOMAIN o.ents : o.ents[i][1] = key
    ELSE 0

\* Object.hasOwn(o, key)
HasOwn(o, key) == OwnIndex(o, key) # 0

\* o[key] as a read: the own property, else what Object.prototype provides.
GetProp(o, key) ==
    IF HasOwn(o, key) THEN o.ents[OwnIndex(o, key)][2]
    ELSE IF key = "__proto__" THEN ObjectPrototype
    ELSE Undefined

\* o[key] = val.  An own property is overwritten in place and a new one is
\* appended, except that "__proto__", when not an own property, reaches the
\* setter inherited from Object.prototype, which ignores a primitive val.
PutProp(o, key, val) ==
    IF HasOwn(o, key)
    THEN [o EXCEPT !.ents[OwnIndex(o, key)] = Pair(key, val)]
    ELSE IF key = "__proto__" THEN o
    ELSE [o EXCEPT !.ents = Append(@, Pair(key, val))]

\* o[key] = val for an array val: as PutProp, except that the inherited
\* setter of "__proto__" makes an object val the prototype of o.
PutList(o, key, val) ==
    IF HasOwn(o, key)
    THEN [o EXCEPT !.ents[OwnIndex(o, key)] = Pair(key, val)]
    ELSE IF key = "__proto__" THEN [o EXCEPT !.proto = <<val>>]
    ELSE [o EXCEPT !.ents = Append(@, Pair(key, val))]

\* delete o[key]
DeleteProp(o, key) ==
    [o EXCEPT !.ents = SelectSeq(@, LAMBDA e : e[1] # key)]

\* The keys `for (const key in o)` visits, in order (Object.prototype has
\* no enumerable property).
ForIn(o) == [i \in DOMAIN o.ents |-> o.ents[i][1]]

(***************************************************************************)
(* The heap and the stores into it.                                        *)
(***************************************************************************)
\* A call's outcome: the heap after it and the reference it returns.
Result(h, r) == [heap |-> h, ret |-> r]

\* What a call that returns no collection yields: the value returned, and the
\* indices it read or the keys it called its function on, in order.
Outcome(out, trace) == [out |-> out, trace |-> trace]

\* A freshly allocated object.
Alloc(h, o) == Result(Append(h, o), Len(h) + 1)

\* obj[key] = val on the object id refers to.
Store(h, id, key, val) == [h EXCEPT ![id] = PutProp(h[id], key, val)]

\* delete obj[key] on the object id refers to.
Delete(h, id, key) == [h EXCEPT ![id] = DeleteProp(h[id], key)]

(***************************************************************************)
(* dict.ts                                                                 *)
(***************************************************************************)
RECURSIVE StorePairs(_, _, _)
\* value.forEach((pair) => { const [key, val] = pair; map[key] = val; })
StorePairs(h, id, pairs) ==
    IF pairs = <<>> THEN h
    ELSE StorePairs(Store(h, id, first(Head(pairs)), second(Head(pairs))),
                    id, Tail(pairs))

RECURSIVE CopyProps(_, _, _, _)
\* for (const key in value) { map[key] = value[key]; }
CopyProps(h, id, from, ks) ==
    IF ks = <<>> THEN h
    ELSE CopyProps(Store(h, id, Head(ks), GetProp(h[from], Head(ks))),
                   id, from, Tail(ks))

RECURSIVE StoreGroups(_, _, _)
\* The same forEach of Dict, at TValue = List<number>.
StoreGroups(h, id, pairs) ==
    IF pairs = <<>> THEN h
    ELSE StoreGroups([h EXCEPT ![id] = PutList(h[id], first(Head(pairs)),
                                               second(Head(pairs)))],
                     id, Tail(pairs))

\* Dict(pairs) at TValue = List<number>, as groupInto calls it.
DictOfGroups(h, pairs) ==
    LET m == Alloc(h, [EmptyObject EXCEPT !.kind = "ldict"])
    IN  Result(StoreGroups(m.heap, m.ret, pairs), m.ret)

\* Dict(): no argument.
DictEmpty(h) == Alloc(h, EmptyObject)

\* Dict(pairs): an array of pairs.
DictOfPairs(h, pairs) ==
    LET m == Alloc(h, EmptyObject)
    IN  Result(StorePairs(m.heap, m.ret, pairs), m.ret)

\* Dict returning its argument instead of a copy of it.
DictAliased(h, value) == Result(h, value)

\* Dict(value): an existing Dict.
Dict(h, value) ==
    LET m == Alloc(h, EmptyObject)
    IN  Result(CopyProps(m.heap, m.ret, value, ForIn(h[value])), m.ret)

has(h, dict, key) == HasOwn(h[dict], key)

get(h, dict, key) ==
    IF has(h, dict, key) THEN Something(GetProp(h[dict], key)) ELSE Nothing

keys(h, dict) == ForIn(h[dict])

entries(h, dict) ==
    [i \in DOMAIN keys(h, dict) |->
        Pair(keys(h, dict)[i], GetProp(h[dict], keys(h, dict)[i]))]

size(h, dict) == Len(keys(h, dict))

\* remove with the delete left out.
removeWithoutDelete(h, dict, key) ==
    IF ~has(h, dict, key) THEN Result(h, dict) ELSE Dict(h, dict)

remove(h, dict, key) ==
    IF ~has(h, dict, key) THEN Result(h, dict)
    ELSE LET copy == Dict(h, dict)
         IN  Result(Delete(copy.heap, copy.ret, key), copy.ret)

\* set storing into its argument instead of a copy of it.
setInPlace(h, dict, key, value) ==
    IF StrictEq(GetProp(h[dict], key), value) THEN Result(h, dict)
    ELSE Result(Store(h, dict, key, value), dict)

set(h, dict, key, value) ==
    IF StrictEq(GetProp(h[dict], key), value) THEN Result(h, dict)
    ELSE LET copy == Dict(h, dict)
         IN  Result(Store(copy.heap, copy.ret, key, value), copy.ret)

\* The predicates handed to filter, every and some: (value, key) => boolean.
Predicates == {"always", "never", "truthy", "keyed"}

Holds(predicate, value, key) ==
    CASE predicate = "always" -> TRUE
      [] predicate = "never" -> FALSE
      [] predicate = "truthy" -> Truthy(value)
      [] predicate = "keyed" -> key # ""

RECURSIVE EveryLoop(_, _, _)
\* Array.prototype.every over the entries still to visit: it stops at the
\* first entry the predicate rejects.
EveryLoop(rest, predicate, called) ==
    IF rest = <<>> THEN Outcome(TRUE, called)
    ELSE IF Holds(predicate, second(Head(rest)), first(Head(rest)))
         THEN EveryLoop(Tail(rest), predicate, Append(called, first(Head(rest))))
         ELSE Outcome(FALSE, Append(called, first(Head(rest))))

RECURSIVE SomeLoop(_, _, _)
\* Array.prototype.some over the entries still to visit: it stops at the
\* first entry the predicate accepts.
SomeLoop(rest, predicate, called) ==
    IF rest = <<>> THEN Outcome(FALSE, called)
    ELSE IF Holds(predicate, second(Head(rest)), first(Head(rest)))
         THEN Outcome(TRUE, Append(called, first(Head(rest))))
         ELSE SomeLoop(Tail(rest), predicate, Append(called, first(Head(rest))))

\* every asking the predicate about the first entry alone.
everyOfFirst(h, dict, predicate) ==
    EveryLoop(IF entries(h, dict) = <<>> THEN <<>>
              ELSE <<Head(entries(h, dict))>>, predicate, <<>>)

every(h, dict, predicate) == EveryLoop(entries(h, dict), predicate, <<>>)

some(h, dict, predicate) == SomeLoop(entries(h, dict), predicate, <<>>)

\* The functions handed to map: (value, key) => value.
Transforms == {"same", "one", "keyed"}

Apply(fn, value, key) ==
    CASE fn = "same" -> value
      [] fn = "one" -> "1"
      [] fn = "keyed" -> IF key = "" THEN "0" ELSE value

RECURSIVE FilterLoop(_, _, _, _, _, _)
\* The loop of filter over the keys ks still to visit: the heap and
\* anyFilteredOut when it ends.
FilterLoop(h, copy, dict, predicate, ks, anyFilteredOut) ==
    IF ks = <<>> THEN [heap |-> h, any |-> anyFilteredOut]
    ELSE LET key == Head(ks)
         IN  IF Holds(predicate, GetProp(h[dict], key), key)
             THEN FilterLoop(Store(h, copy, key, GetProp(h[dict], key)),
                             copy, dict, predicate, Tail(ks), anyFilteredOut)
             ELSE FilterLoop(h, copy, dict, predicate, Tail(ks), TRUE)

\* filter without the identity-preserving return.
filterAlwaysCopy(h, dict, predicate) ==
    LET copy == Alloc(h, EmptyObject)
        done == FilterLoop(copy.heap, copy.ret, dict, predicate,
                           ForIn(h[dict]), FALSE)
    IN  Result(done.heap, copy.ret)

filter(h, dict, predicate) ==
    LET copy == Alloc(h, EmptyObject)
        done == FilterLoop(copy.heap, copy.ret, dict, predicate,
                           ForIn(h[dict]), FALSE)
    IN  Result(done.heap, IF done.any THEN copy.ret ELSE dict)

RECURSIVE MapLoopStoringOld(_, _, _, _, _, _)
\* The loop of map storing dict[key] instead of next.
MapLoopStoringOld(h, copy, dict, fn, ks, anyChanged) ==
    IF ks = <<>> THEN [heap |-> h, any |-> anyChanged, calls |-> <<>>]
    ELSE LET key == Head(ks)
             next == Apply(fn, GetProp(h[dict], key), key)
             rest == MapLoopStoringOld(
                         Store(h, copy, key, GetProp(h[dict], key)),
                         copy, dict, fn, Tail(ks),
                         anyChanged \/ ~StrictEq(next, GetProp(h[dict], key)))
         IN  [rest EXCEPT !.calls = <<key>> \o @]

RECURSIVE MapLoop(_, _, _, _, _, _)
\* The loop of map over the keys ks still to visit: the heap and anyChanged
\* when it ends, and the keys fn was called on, one per iteration, in order.
MapLoop(h, copy, dict, fn, ks, anyChanged) ==
    IF ks = <<>> THEN [heap |-> h, any |-> anyChanged, calls |-> <<>>]
    ELSE LET key == Head(ks)
             next == Apply(fn, GetProp(h[dict], key), key)
             rest == MapLoop(Store(h, copy, key, next), copy, dict, fn, Tail(ks),
                             anyChanged \/ ~StrictEq(next, GetProp(h[dict], key)))
         IN  [rest EXCEPT !.calls = <<key>> \o @]

\* map calling fn a second time for the comparison with dict[key].
mapCallingTwice(h, dict, fn) ==
    LET copy == Alloc(h, EmptyObject)
        done == MapLoop(copy.heap, copy.ret, dict, fn, ForIn(h[dict]), FALSE)
    IN  [heap |-> done.heap, ret |-> IF done.any THEN copy.ret ELSE dict,
         calls |-> done.calls \o done.calls]

\* The outcome of map, and the keys it called fn on.
map(h, dict, fn) ==
    LET copy == Alloc(h, EmptyObject)
        done == MapLoop(copy.heap, copy.ret, dict, fn, ForIn(h[dict]), FALSE)
    IN  [heap |-> done.heap, ret |-> IF done.any THEN copy.ret ELSE dict,
         calls |-> done.calls]

RECURSIVE MergeEachKeepingFirst(_, _, _, _)
\* The forEach of merge setting only the keys copy does not have yet.
MergeEachKeepingFirst(h, copy, dict, ks) ==
    IF ks = <<>> THEN Result(h, copy)
    ELSE IF has(h, copy, Head(ks))
         THEN MergeEachKeepingFirst(h, copy, dict, Tail(ks))
         ELSE LET r == set(h, copy, Head(ks), GetProp(h[dict], Head(ks)))
              IN  MergeEachKeepingFirst(r.heap, r.ret, dict, Tail(ks))

RECURSIVE MergeEach(_, _, _, _)
\* forEach(dict, (value, key) => { copy = set(copy, key, value); }) over the
\* keys ks still to visit: the heap and copy when it ends.
MergeEach(h, copy, dict, ks) ==
    IF ks = <<>> THEN Result(h, copy)
    ELSE LET r == set(h, copy, Head(ks), GetProp(h[dict], Head(ks)))
         IN  MergeEach(r.heap, r.ret, dict, Tail(ks))

RECURSIVE MergeRest(_, _, _)
\* rest.forEach((dict) => ...)
MergeRest(h, copy, rest) ==
    IF rest = <<>> THEN Result(h, copy)
    ELSE LET r == MergeEach(h, copy, Head(rest), ForIn(h[Head(rest)]))
         IN  MergeRest(r.heap, r.ret, Tail(rest))

\* merge folding onto a copy of its first argument.
mergeOntoCopy(h, dicts) ==
    IF Len(dicts) < 1 THEN Alloc(h, EmptyObject)
    ELSE IF Len(dicts) < 2 THEN Result(h, dicts[1])
    ELSE LET copy == Dict(h, dicts[1])
         IN  MergeRest(copy.heap, copy.ret, Tail(dicts))

merge(h, dicts) ==
    IF Len(dicts) < 1 THEN Alloc(h, EmptyObject)
    ELSE IF Len(dicts) < 2 THEN Result(h, dicts[1])
    ELSE MergeRest(h, dicts[1], Tail(dicts))

(***************************************************************************)
(* list.ts                                                                 *)
(***************************************************************************)
\* List(value): [...value]
List(h, items) == Alloc(h, ArrayOf(items))

\* list.slice(0, -1)
front(h, list) ==
    Alloc(h, ArrayOf(SubSeq(h[list].ents, 1, Len(h[list].ents) - 1)))

\* tail returning the list itself when nothing is to be dropped.
tailSharingEmpty(h, list) ==
    IF h[list].ents = <<>> THEN Result(h, list)
    ELSE Alloc(h, ArrayOf(SubSeq(h[list].ents, 2, Len(h[list].ents))))

\* list.slice(1)
tail(h, list) ==
    Alloc(h, ArrayOf(SubSeq(h[list].ents, 2, Len(h[list].ents))))

\* An array, as a value handed to isNone.
ArrayValue == "[object Array]"

\* list[index]: undefined when index is not an index of the array.
ReadIndex(items, index) ==
    IF index >= 0 /\ index < Len(items) THEN items[index + 1] ELSE Undefined

\* end reading list[list.length].
endPastLast(h, list) ==
    IF isNone(ArrayValue) THEN Outcome(wrap(Undefined), <<>>)
    ELSE Outcome(wrap(ReadIndex(h[list].ents, Len(h[list].ents))),
                 <<Len(h[list].ents)>>)

end(h, list) ==
    IF isNone(ArrayValue) THEN Outcome(wrap(Undefined), <<>>)
    ELSE Outcome(wrap(ReadIndex(h[list].ents, Len(h[list].ents) - 1)),
                 <<Len(h[list].ents) - 1>>)

head(h, list) ==
    IF isNone(ArrayValue) THEN Outcome(wrap(Undefined), <<>>)
    ELSE Outcome(wrap(ReadIndex(h[list].ents, 0)), <<0>>)

\* Membership by strict equality, under which NaN is never found.
SetHasStrictly(alreadySeen, value) ==
    \E seen \in alreadySeen : StrictEq(seen, value)

\* Set.prototype.has: SameValueZero, under which NaN equals NaN.
SetHas(alreadySeen, value) == value \in alreadySeen

RECURSIVE UniqueLoop(_, _, _, _)
\* The loop of unique over the values still to visit: copy and anyRemoved
\* when it ends.
UniqueLoop(rest, alreadySeen, copy, anyRemoved) ==
    IF rest = <<>> THEN [copy |-> copy, any |-> anyRemoved]
    ELSE IF SetHas(alreadySeen, Head(rest))
         THEN UniqueLoop(Tail(rest), alreadySeen, copy, TRUE)
         ELSE UniqueLoop(Tail(rest), alreadySeen \cup {Head(rest)},
                         Append(copy, Head(rest)), anyRemoved)

\* unique returning its copy whether or not anything was removed.
uniqueAlwaysCopy(h, list) ==
    LET done == UniqueLoop(h[list].ents, {}, <<>>, FALSE)
    IN  Alloc(h, ArrayOf(done.copy))

unique(h, list) ==
    LET done == UniqueLoop(h[list].ents, {}, <<>>, FALSE)
        copy == Alloc(h, ArrayOf(done.copy))
    IN  Result(copy.heap, IF done.any THEN copy.ret ELSE list)

\* The key functions handed to group: (value, index) => TKey.  "value" and
\* "index" return numbers, "label" and "fixed" strings.
KeyFns == {"value", "index", "label", "fixed"}

StringKeyFns == {"label", "fixed"}

\* The number i as a value.
Num(i) == CASE i = 0 -> "0" [] i = 1 -> "1" [] i = 2 -> "2" [] OTHER -> "3"

KeyOf(groupBy, value, index) ==
    CASE groupBy = "value" -> value
      [] groupBy = "index" -> Num(index)
      [] groupBy = "label" -> IF value = "NaN" THEN "__proto__" ELSE "a"
      [] groupBy = "fixed" -> ""

\* pairs.filter((pair) => groupKey === first(pair)).map(second)
ValuesForGroup(pairs, groupKey) ==
    LET kept == SelectSeq(pairs, LAMBDA pair : StrictEq(groupKey, first(pair)))
    IN  [i \in DOMAIN kept |-> second(kept[i])]

\* isArray of @eyebraus/core: the value is a native array.
isArray(h, value) == h[value].kind \in {"list", "groups"}

\* isBlank of @eyebraus/core, on a Dict: it has no entry.
isBlank(h, value) == keys(h, value) = <<>>

isDict(h, value) == ~isArray(h, value)

isList(h, value) == isArray(h, value)

\* isEmpty taking a collection of one item for empty.
isEmptyUpToOne(h, collection) ==
    Outcome(IF isDict(h, collection) THEN isBlank(h, collection)
            ELSE Len(h[collection].ents) <= 1, <<>>)

isEmpty(h, collection) ==
    Outcome(IF isDict(h, collection) THEN isBlank(h, collection)
            ELSE Len(h[collection].ents) < 1, <<>>)

group(h, list, groupBy) ==
    LET items == h[list].ents
        pairs == [i \in DOMAIN items |->
                     Pair(KeyOf(groupBy, items[i], i - 1), items[i])]
        firsts == Alloc(h, ArrayOf([i \in DOMAIN pairs |-> first(pairs[i])]))
        groupKeys == unique(firsts.heap, firsts.ret)
        ks == groupKeys.heap[groupKeys.ret].ents
        groups == [j \in DOMAIN ks |-> Pair(ks[j], ValuesForGroup(pairs, ks[j]))]
    IN  Alloc(groupKeys.heap, [ArrayOf(groups) EXCEPT !.kind = "groups"])

groupInto(h, list, groupBy) ==
    LET groups == group(h, list, groupBy)
    IN  DictOfGroups(groups.heap, groups.heap[groups.ret].ents)

(***************************************************************************)
(* State: the heap, and a record of the last call made.                    *)
(***************************************************************************)
VARIABLES
    heap,    \* the objects allocated so far
    last,    \* the last call made
    origin   \* origin[id]: the Dict that Dict(dict) copied into id, else 0

vars == <<heap, last, origin>>

\* The record of a call: the function, its arguments, the reference it
\* returned and the heap as it was when the call was made.
Call(op, dict, key, value, fn, pairs, ids, ret) ==
    [op |-> op, dict |-> dict, key |-> key, value |-> value, fn |-> fn,
     pairs |-> pairs, ids |-> ids, ret |-> ret, before |-> heap,
     out |-> <<>>, trace |-> <<>>]

NoCall ==
    [op |-> "", dict |-> 0, key |-> "", value |-> "", fn |-> "",
     pairs |-> <<>>, ids |-> <<>>, ret |-> 0, before |-> <<>>,
     out |-> <<>>, trace |-> <<>>]

\* The objects a later call may be handed.
Refs == DOMAIN heap

DictRefs == {id \in Refs : heap[id].kind = "dict"}

\* Sequences over S of length at most n.
SeqUpTo(S, n) == UNION {[1..k -> S] : k \in 0..n}

ListRefs == {id \in Refs : heap[id].kind = "list"}

ListLiterals == SeqUpTo(Values, MaxItems)

PairLiterals == SeqUpTo(Keys \X Values, MaxLen)

\* What the caller holds once a call on heap h0 has returned r: the objects it
\* held before and the one returned.  The temporaries a call allocates and
\* does not return are unreachable, and are dropped.
Settle(h0, r) ==
    IF r.ret <= Len(h0)
    THEN Result(SubSeq(r.heap, 1, Len(h0)), r.ret)
    ELSE Result(Append(SubSeq(r.heap, 1, Len(h0)), r.heap[r.ret]), Len(h0) + 1)

\* A call returns r; from is the Dict it was asked to copy, if any.
Return(r, call, from) ==
    /\ heap' = r.heap
    /\ last' = call
    /\ origin' = IF Len(r.heap) > Len(heap) THEN Append(origin, from)
                 ELSE origin

\* The caller may make a call: it has looked at the outcome of the one before,
\* and holds fewer than MaxObjs objects.
Ready ==
    /\ last.op = ""
    /\ Len(heap) < MaxObjs

Init ==
    /\ heap = <<>>
    /\ last = NoCall
    /\ origin = <<>>

CallDictEmpty ==
    /\ Ready
    /\ LET r == Settle(heap, DictEmpty(heap))
       IN  Return(r, Call("Dict()", 0, "", "", "", <<>>, <<>>, r.ret), 0)

CallDictOfPairs ==
    /\ Ready
    /\ \E pairs \in PairLiterals :
         LET r == Settle(heap, DictOfPairs(heap, pairs))
         IN  Return(r, Call("Dict(pairs)", 0, "", "", "", pairs, <<>>, r.ret), 0)

CallDict ==
    /\ Ready
    /\ \E value \in DictRefs :
         LET r == Settle(heap, Dict(heap, value))
         IN  Return(r, Call("Dict(dict)", value, "", "", "", <<>>, <<>>, r.ret), value)

CallSet ==
    /\ Ready
    /\ \E dict \in DictRefs, key \in Keys, value \in Values :
         LET r == Settle(heap, set(heap, dict, key, value))
         IN  Return(r, Call("set", dict, key, value, "", <<>>, <<>>, r.ret), 0)

CallRemove ==
    /\ Ready
    /\ \E dict \in DictRefs, key \in Keys :
         LET r == Settle(heap, remove(heap, dict, key))
         IN  Return(r, Call("remove", dict, key, "", "", <<>>, <<>>, r.ret), 0)

CallFilter ==
    /\ Ready
    /\ \E dict \in DictRefs, predicate \in Predicates :
         LET r == Settle(heap, filter(heap, dict, predicate))
         IN  Return(r, Call("filter", dict, "", "", predicate, <<>>, <<>>, r.ret), 0)

CallMap ==
    /\ Ready
    /\ \E dict \in DictRefs, fn \in Transforms :
         LET done == map(heap, dict, fn)
             r == Settle(heap, done)
         IN  Return(r, [Call("map", dict, "", "", fn, <<>>, <<>>, r.ret)
                           EXCEPT !.trace = done.calls], 0)

CallMerge ==
    /\ Ready
    /\ \E dicts \in SeqUpTo(DictRefs, MaxArgs) :
         LET r == Settle(heap, merge(heap, dicts))
         IN  Return(r, Call("merge", 0, "", "", "", <<>>, dicts, r.ret), 0)

CallList ==
    /\ Ready
    /\ \E items \in ListLiterals :
         LET r == Settle(heap, List(heap, items))
         IN  Return(r, Call("List", 0, "", "", "", items, <<>>, r.ret), 0)

CallFront ==
    /\ Ready
    /\ \E list \in ListRefs :
         LET r == Settle(heap, front(heap, list))
         IN  Return(r, Call("front", list, "", "", "", <<>>, <<>>, r.ret), 0)

CallTail ==
    /\ Ready
    /\ \E list \in ListRefs :
         LET r == Settle(heap, tail(heap, list))
         IN  Return(r, Call("tail", list, "", "", "", <<>>, <<>>, r.ret), 0)

CallUnique ==
    /\ Ready
    /\ \E list \in ListRefs :
         LET r == Settle(heap, unique(heap, list))
         IN  Return(r, Call("unique", list, "", "", "", <<>>, <<>>, r.ret), 0)

CallGroup ==
    /\ Ready
    /\ \E list \in ListRefs, groupBy \in KeyFns :
         LET r == Settle(heap, group(heap, list, groupBy))
         IN  Return(r, Call("group", list, "", "", groupBy, <<>>, <<>>, r.ret), 0)

CallGroupInto ==
    /\ Ready
    /\ \E list \in ListRefs, groupBy \in StringKeyFns :
         LET r == Settle(heap, groupInto(heap, list, groupBy))
         IN  Return(r, Call("groupInto", list, "", "", groupBy, <<>>, <<>>, r.ret), 0)

\* A call returns a value that is no collection: no object is allocated.
Answer(op, arg, fn, r) ==
    /\ last' = [Call(op, arg, "", "", fn, <<>>, <<>>, 0)
                   EXCEPT !.out = r.out, !.trace = r.trace]
    /\ UNCHANGED <<heap, origin>>

CallHead ==
    /\ Ready
    /\ \E list \in ListRefs : Answer("head", list, "", head(heap, list))

CallEnd ==
    /\ Ready
    /\ \E list \in ListRefs : Answer("end", list, "", end(heap, list))

CallIsEmpty ==
    /\ Ready
    /\ \E collection \in Refs :
         Answer("isEmpty", collection, "", isEmpty(heap, collection))

CallEvery ==
    /\ Ready
    /\ \E dict \in DictRefs, predicate \in Predicates :
         Answer("every", dict, predicate, every(heap, dict, predicate))

CallSome ==
    /\ Ready
    /\ \E dict \in DictRefs, predicate \in Predicates :
         Answer("some", dict, predicate, some(heap, dict, predicate))

\* The caller has looked at the outcome of its last call and goes on; the
\* objects stay.
Resume ==
    /\ last.op # ""
    /\ last' = NoCall
    /\ UNCHANGED <<heap, origin>>

NextDict ==
    \/ Resume
    \/ CallDictEmpty
    \/ CallDictOfPairs
    \/ CallDict
    \/ CallSet
    \/ CallRemove
    \/ CallFilter
    \/ CallMap
    \/ CallMerge
    \/ CallEvery
    \/ CallSome
    \/ CallIsEmpty

NextList ==
    \/ Resume
    \/ CallList
    \/ CallFront
    \/ CallTail
    \/ CallUnique
    \/ CallGroup
    \/ CallGroupInto
    \/ CallHead
    \/ CallEnd
    \/ CallIsEmpty

Next == NextDict \/ NextList

\* The calls of both files are mixed while the caller holds fewer than
\* MaxObjs - 1 objects.
Mixed == Len(heap) + 1 < MaxObjs

NextMixed ==
    \/ Mixed /\ Resume
    \/ Mixed /\ CallDictEmpty
    \/ Mixed /\ CallDictOfPairs
    \/ Mixed /\ CallDict
    \/ Mixed /\ CallSet
    \/ Mixed /\ CallRemove
    \/ Mixed /\ CallFilter
    \/ Mixed /\ CallMap
    \/ Mixed /\ CallMerge
    \/ Mixed /\ CallList
    \/ Mixed /\ CallFront
    \/ Mixed /\ CallTail
    \/ Mixed /\ CallUnique
    \/ Mixed /\ CallGroup
    \/ Mixed /\ CallGroupInto
    \/ Mixed /\ CallHead
    \/ Mixed /\ CallEnd
    \/ Mixed /\ CallIsEmpty
    \/ Mixed /\ CallEvery
    \/ Mixed /\ CallSome

\* Any sequence of calls of the library.
Spec == Init /\ [][NextMixed]_vars

\* The calls of dict.ts alone.
SpecDict == Init /\ [][NextDict]_vars

\* The calls of list.ts alone.
SpecList == Init /\ [][NextList]_vars

(***************************************************************************)
(* What the claims speak of: a mapping's content, whatever the order of    *)
(* its entries.                                                            *)
(***************************************************************************)
KeySet(o) == {o.ents[i][1] : i \in DOMAIN o.ents}

EntrySet(o) == {o.ents[i] : i \in DOMAIN o.ents}

\* No key occurs twice.
KeysUnique(o) == Cardinality(KeySet(o)) = Len(o.ents)

\* The value k is bound to in o, for k in KeySet(o).
ValueAt(o, k) == (CHOOSE e \in EntrySet(o) : e[1] = k)[2]

\* The entries of o other than that of k.
Without(o, k) == {e \in EntrySet(o) : e[1] # k}

\* The last call's Dict argument as it was when the call was made, and the
\* object the call returned.
Arg == last.before[last.dict]

Ret == heap[last.ret]

\* The last call returned an object that did not exist before it.
Fresh == last.ret \notin DOMAIN last.before

\* The i-th argument of the last call of merge, as it was.
MergeArg(i) == last.before[last.ids[i]]

\* The last index at which key k occurs in a sequence of pairs.
LastIndex(pairs, k) ==
    CHOOSE i \in DOMAIN pairs :
        /\ pairs[i][1] = k
        /\ \A j \in DOMAIN pairs : pairs[j][1] = k => j <= i

\* C1: for every mapping m, key k and defined value v,
\* get(set(m, k, v), k) equals Something(v).
C1_GetAfterSet ==
    last.op = "set" =>
        get(heap, last.ret, last.key) = Something(last.value)

\* C2: set(m, k, v) returns m itself if and only if m has an entry for k
\* whose value is strictly equal to v; otherwise it returns an instance
\* distinct from m whose entries are exactly those of m with k bound to v.
C2_Set ==
    last.op = "set" =>
        /\ last.ret = last.dict <=>
              /\ last.key \in KeySet(Arg)
              /\ StrictEq(ValueAt(Arg, last.key), last.value)
        /\ last.ret # last.dict =>
              /\ KeysUnique(Ret)
              /\ EntrySet(Ret) =
                    Without(Arg, last.key) \cup {Pair(last.key, last.value)}

\* C3: remove(m, k) returns m itself when m has no entry for k; otherwise an
\* instance distinct from m whose entries are exactly those of m without k.
\* In both cases get(remove(m, k), k) is Nothing.
C3_Remove ==
    last.op = "remove" =>
        /\ last.key \notin KeySet(Arg) => last.ret = last.dict
        /\ last.key \in KeySet(Arg) =>
              /\ last.ret # last.dict
              /\ KeysUnique(Ret)
              /\ EntrySet(Ret) = Without(Arg, last.key)
        /\ get(heap, last.ret, last.key) = Nothing

\* C3 witness: remove took an entry out of a mapping that had two.
C3_Witness ==
    /\ last.op = "remove"
    /\ last.key \in KeySet(Arg)
    /\ Len(Arg.ents) = 2
    /\ Len(Ret.ents) = 1

\* C4: no call mutates a collection it was given: every mapping or sequence
\* that existed before a call has the same content after it.
C4_NoMutation ==
    /\ Len(last.before) <= Len(heap)
    /\ \A id \in DOMAIN last.before : heap[id] = last.before[id]

\* C4 witness: set edited a copy of a non-empty mapping.
C4_Witness ==
    /\ last.op = "set"
    /\ last.ret # last.dict
    /\ Arg.ents # <<>>
    /\ Ret.ents # Arg.ents

\* C5: filter(m, p) returns a mapping holding exactly the entries (k, v) of
\* m with p(v, k) true: m itself when every entry passes, an instance
\* distinct from m when at least one entry fails.
C5_Filter ==
    last.op = "filter" =>
        LET passing == {e \in EntrySet(Arg) : Holds(last.fn, e[2], e[1])}
        IN  /\ EntrySet(Ret) = passing
            /\ KeysUnique(Ret)
            /\ passing = EntrySet(Arg) => last.ret = last.dict
            /\ passing # EntrySet(Arg) => last.ret # last.dict

\* C5 witness: filter kept one entry of two.
C5_Witness ==
    /\ last.op = "filter"
    /\ Len(Arg.ents) = 2
    /\ Len(Ret.ents) = 1

\* C6: map(m, fn) returns a mapping with the key set of m in which each key
\* k is bound to fn(m[k], k): m itself when fn(m[k], k) is strictly equal to
\* m[k] for every key, an instance distinct from m otherwise.
C6_Map ==
    last.op = "map" =>
        LET unchanged ==
                \A e \in EntrySet(Arg) :
                    StrictEq(Apply(last.fn, e[2], e[1]), e[2])
        IN  /\ KeySet(Ret) = KeySet(Arg)
            /\ KeysUnique(Ret)
            /\ \A e \in EntrySet(Arg) :
                  ValueAt(Ret, e[1]) = Apply(last.fn, e[2], e[1])
            /\ unchanged => last.ret = last.dict
            /\ ~unchanged => last.ret # last.dict

\* C6 witness: map changed one value of two and left the other.
C6_Witness ==
    /\ last.op = "map"
    /\ last.ret # last.dict
    /\ Len(Arg.ents) = 2
    /\ \E e \in EntrySet(Arg) : e \in EntrySet(Ret)
    /\ \E e \in EntrySet(Arg) : e \notin EntrySet(Ret)

\* C7: for two or more mappings, the key set of merge(m1, ..., mn) is the
\* union of the key sets of m1..mn, and each key is bound to the value it
\* has in the rightmost mapping that contains it.
C7_MergeRightmost ==
    (last.op = "merge" /\ Len(last.ids) >= 2) =>
        /\ KeySet(Ret) = UNION {KeySet(MergeArg(i)) : i \in DOMAIN last.ids}
        /\ KeysUnique(Ret)
        /\ \A k \in KeySet(Ret) :
              LET holders == {i \in DOMAIN last.ids : k \in KeySet(MergeArg(i))}
                  rightmost == CHOOSE i \in holders : \A j \in holders : j <= i
              IN  ValueAt(Ret, k) = ValueAt(MergeArg(rightmost), k)

\* C7 witness: merge of three mappings, two of which bind the same key to
\* different values, and one of which brings a key of its own.
C7_Witness ==
    /\ last.op = "merge"
    /\ Len(last.ids) = 3
    /\ \E i, j \in DOMAIN last.ids, k \in Keys :
          /\ i < j
          /\ k \in KeySet(MergeArg(i)) \cap KeySet(MergeArg(j))
          /\ ValueAt(MergeArg(i), k) # ValueAt(MergeArg(j), k)
    /\ \E i, j \in DOMAIN last.ids :
          KeySet(MergeArg(j)) \ KeySet(MergeArg(i)) # {}

\* C8: merge() returns an empty mapping; merge(m) returns m itself;
\* merge(m1, ..., mn) returns m1 itself whenever every entry of m2..mn is
\* present in m1 with a strictly equal value.
C8_MergeIdentity ==
    last.op = "merge" =>
        /\ Len(last.ids) = 0 => Ret.kind = "dict" /\ Ret.ents = <<>>
        /\ Len(last.ids) = 1 => last.ret = last.ids[1]
        /\ Len(last.ids) >= 2 =>
              ((\A i \in 2..Len(last.ids) : \A e \in EntrySet(MergeArg(i)) :
                    /\ e[1] \in KeySet(MergeArg(1))
                    /\ StrictEq(ValueAt(MergeArg(1), e[1]), e[2]))
               => last.ret = last.ids[1])

\* C8 witness: merge of a mapping with a different, non-empty mapping whose
\* entries it already has returned the first.
C8_Witness ==
    /\ last.op = "merge"
    /\ Len(last.ids) >= 2
    /\ last.ids[2] # last.ids[1]
    /\ MergeArg(2).ents # <<>>
    /\ MergeArg(2).ents # MergeArg(1).ents
    /\ last.ret = last.ids[1]

\* C9: Dict applied to a sequence of (key, value) pairs returns a mapping
\* whose key set is the set of keys occurring in the sequence, each bound to
\* the value of the last pair carrying that key; in particular
\* Dict(entries(m)) has the content of m.
C9_DictOfPairs ==
    last.op = "Dict(pairs)" =>
        /\ KeySet(Ret) = {last.pairs[i][1] : i \in DOMAIN last.pairs}
        /\ KeysUnique(Ret)
        /\ \A k \in KeySet(Ret) :
              ValueAt(Ret, k) = last.pairs[LastIndex(last.pairs, k)][2]
        /\ \A m \in DOMAIN last.before :
              (last.before[m].kind = "dict"
                 /\ last.pairs = entries(last.before, m))
              => EntrySet(Ret) = EntrySet(last.before[m])

\* C10: Dict called with an existing mapping m returns a newly allocated
\* instance, distinct from m, with exactly the entries of m, and a later
\* set, remove or merge on the copy leaves m as it was.
C10_DictCopies ==
    /\ last.op = "Dict(dict)" =>
          /\ Fresh
          /\ last.ret # last.dict
          /\ Ret.kind = "dict"
          /\ EntrySet(Ret) = EntrySet(Arg)
          /\ KeysUnique(Ret)
    /\ \A c \in DOMAIN origin :
          origin[c] # 0 =>
              /\ c # origin[c]
              /\ (\/ last.op \in {"set", "remove"} /\ last.dict = c
                  \/ last.op = "merge" /\ \E i \in DOMAIN last.ids : last.ids[i] = c)
                 => heap[origin[c]] = last.before[origin[c]]

\* C10 witness: set changed an entry of a copy that Dict made of a
\* non-empty mapping.
C10_Witness ==
    /\ last.op = "set"
    /\ origin[last.dict] # 0
    /\ last.ret # last.dict
    /\ heap[origin[last.dict]].ents # <<>>
    /\ Ret.ents # heap[origin[last.dict]].ents

\* The elements of the last call's List argument, as they were.
Items == last.before[last.dict].ents

ItemsOf(r) == r.heap[r.ret].ents

\* C12: front(s) is s without its last element and tail(s) is s without its
\* first, each a new sequence in the original order; for s of length 0 or 1
\* both are empty; for s of length >= 2, front(tail(s)) equals tail(front(s)).
C12_FrontTail ==
    /\ last.op = "front" =>
          /\ Fresh
          /\ Len(Ret.ents) = (IF Items = <<>> THEN 0 ELSE Len(Items) - 1)
          /\ \A i \in DOMAIN Ret.ents : Ret.ents[i] = Items[i]
          /\ last.before[last.dict] = heap[last.dict]
    /\ last.op = "tail" =>
          /\ Fresh
          /\ Len(Ret.ents) = (IF Items = <<>> THEN 0 ELSE Len(Items) - 1)
          /\ \A i \in DOMAIN Ret.ents : Ret.ents[i] = Items[i + 1]
          /\ last.before[last.dict] = heap[last.dict]
    /\ \A s \in ListRefs :
          LET t  == tail(heap, s)
              f  == front(heap, s)
              ft == front(t.heap, t.ret)
              tf == tail(f.heap, f.ret)
          IN  /\ Len(heap[s].ents) >= 2 => ItemsOf(ft) = ItemsOf(tf)
              /\ Len(heap[s].ents) <= 1 =>
                    ItemsOf(t) = <<>> /\ ItemsOf(f) = <<>>

\* C12 witness: tail of a sequence of three distinct-ended elements returned
\* its last two, while front(tail(s)) and tail(front(s)) are both its middle.
C12_Witness ==
    /\ last.op = "tail"
    /\ Len(Items) = 3
    /\ Items[1] # Items[2]
    /\ Ret.ents = <<Items[2], Items[3]>>
    /\ LET f == front(heap, last.ret) IN ItemsOf(f) = <<Items[2]>>

\* The index of the first occurrence of value v in sequence s.
FirstPos(s, v) ==
    CHOOSE i \in DOMAIN s : s[i] = v /\ \A j \in DOMAIN s : s[j] = v => i <= j

\* No value occurs twice in sequence s.
NoDuplicate(s) == \A i, j \in DOMAIN s : i # j => s[i] # s[j]

\* C13: unique(s) contains each distinct value of s exactly once, in the
\* order of the first occurrences of those values in s.
C13_Unique ==
    last.op = "unique" =>
        /\ NoDuplicate(Ret.ents)
        /\ {Ret.ents[i] : i \in DOMAIN Ret.ents} =
              {Items[i] : i \in DOMAIN Items}
        /\ \A i, j \in DOMAIN Ret.ents :
              i < j => FirstPos(Items, Ret.ents[i]) < FirstPos(Items, Ret.ents[j])

\* C13 witness: unique of <<NaN, 0, NaN>> returned <<NaN, 0>>.
C13_Witness ==
    /\ last.op = "unique"
    /\ Items = <<"NaN", "0", "NaN">>
    /\ Ret.ents = <<"NaN", "0">>

\* C14: unique(s) returns the very same instance s if and only if s contains
\* no duplicate value (also when s is empty); when s contains a duplicate the
\* result is an instance distinct from s, and a new one.
C14_UniqueIdentity ==
    last.op = "unique" =>
        /\ (last.ret = last.dict) <=> NoDuplicate(Items)
        /\ ~NoDuplicate(Items) => Fresh

\* C14 witness: unique of a sequence of two different values returned that
\* very sequence.
C14_Witness ==
    /\ last.op = "unique"
    /\ Len(Items) = 2
    /\ NoDuplicate(Items)
    /\ last.ret = last.dict

\* The keys the last call's key function gives the elements of its List.
GroupKeys == [i \in DOMAIN Items |-> KeyOf(last.fn, Items[i], i - 1)]

\* The elements of the last call's List whose key is k, in order.
MembersOf(k) ==
    LET at == SelectSeq([i \in DOMAIN Items |-> i], LAMBDA i : GroupKeys[i] = k)
    IN  [j \in DOMAIN at |-> Items[at[j]]]

RECURSIVE SumOfSizes(_)
\* The sizes of the groups of a sequence of (key, members) pairs, summed.
SumOfSizes(groups) ==
    IF groups = <<>> THEN 0
    ELSE Len(second(Head(groups))) + SumOfSizes(Tail(groups))

\* C15: group(s, f) is a sequence of (key, members) pairs: the keys are
\* pairwise distinct and in order of first appearance in s; the members of key
\* k are exactly the s[i] with f(s[i], i) = k, in their original order; no
\* group is empty, the group sizes sum to the length of s, and group of the
\* empty sequence is empty.
C15_Group ==
    last.op = "group" =>
        LET ks == [j \in DOMAIN Ret.ents |-> first(Ret.ents[j])]
        IN  /\ NoDuplicate(ks)
            /\ {ks[j] : j \in DOMAIN ks} = {GroupKeys[i] : i \in DOMAIN Items}
            /\ \A i, j \in DOMAIN ks :
                  i < j => FirstPos(GroupKeys, ks[i]) < FirstPos(GroupKeys, ks[j])
            /\ \A j \in DOMAIN ks : second(Ret.ents[j]) = MembersOf(ks[j])
            /\ \A j \in DOMAIN ks : second(Ret.ents[j]) # <<>>
            /\ SumOfSizes(Ret.ents) = Len(Items)
            /\ Items = <<>> => Ret.ents = <<>>

\* C16: groupInto(s, f) is a mapping with one entry per group of group(s, f),
\* keyed by the group key and bound to that group's members in original
\* order, so every element of s lies in exactly one entry's sequence.
C16_GroupInto ==
    last.op = "groupInto" =>
        LET groups == ItemsOf(group(last.before, last.dict, last.fn))
        IN  /\ KeysUnique(Ret)
            /\ KeySet(Ret) = {first(groups[j]) : j \in DOMAIN groups}
            /\ \A j \in DOMAIN groups :
                  /\ HasOwn(Ret, first(groups[j]))
                  /\ GetProp(Ret, first(groups[j])) = second(groups[j])
                  /\ second(groups[j]) = MembersOf(first(groups[j]))
            /\ SumOfSizes(Ret.ents) = Len(Items)

\* C17: isDict(c) is the negation of isList(c), and isEmpty(c) is true iff c
\* is a mapping with zero entries or a sequence of length 0; it is false for
\* a mapping with an entry and for a sequence with an element.
C17_IsEmpty ==
    /\ \A c \in Refs : isDict(heap, c) <=> ~isList(heap, c)
    /\ last.op = "isEmpty" =>
          /\ Arg.kind \in {"dict", "ldict"} =>
                (last.out <=> size(last.before, last.dict) = 0)
          /\ Arg.kind \in {"list", "groups"} =>
                (last.out <=> Len(Arg.ents) = 0)

\* C17 witness: isEmpty answered false for a sequence of one element, which
\* isList accepts and isDict rejects.
C17_Witness ==
    /\ last.op = "isEmpty"
    /\ Arg.kind = "list"
    /\ Len(Arg.ents) = 1
    /\ last.out = FALSE
    /\ isList(heap, last.dict)
    /\ ~isDict(heap, last.dict)

\* C18: every(m, p) is true iff p(v, k) holds for all entries (k, v) of m and
\* some(m, p) is true iff it holds for at least one; every on the empty
\* mapping is true and some on the empty mapping is false.
C18_EverySome ==
    /\ last.op = "every" =>
          /\ last.out <=> \A e \in EntrySet(Arg) : Holds(last.fn, e[2], e[1])
          /\ Arg.ents = <<>> => last.out = TRUE
    /\ last.op = "some" =>
          /\ last.out <=> \E e \in EntrySet(Arg) : Holds(last.fn, e[2], e[1])
          /\ Arg.ents = <<>> => last.out = FALSE

\* C18 witness: every answered false on a mapping of two entries whose first
\* entry satisfies the predicate and whose second does not.
C18_Witness ==
    /\ last.op = "every"
    /\ Len(Arg.ents) = 2
    /\ Holds(last.fn, Arg.ents[1][2], Arg.ents[1][1])
    /\ ~Holds(last.fn, Arg.ents[2][2], Arg.ents[2][1])
    /\ last.out = FALSE

\* C19: map(m, fn) invokes fn exactly once for every entry of m, so the number
\* of calls equals size(m), whether the result is a new instance or m itself.
C19_MapCalls ==
    last.op = "map" =>
        /\ Len(last.trace) = size(last.before, last.dict)
        /\ \A k \in KeySet(Arg) :
              Cardinality({i \in DOMAIN last.trace : last.trace[i] = k}) = 1
        /\ \A i \in DOMAIN last.trace : last.trace[i] \in KeySet(Arg)

\* C19 witness: map over two entries changed the first and kept the second,
\* returned a new instance, and called fn twice.
C19_Witness ==
    /\ last.op = "map"
    /\ Len(Arg.ents) = 2
    /\ ~StrictEq(Apply(last.fn, Arg.ents[1][2], Arg.ents[1][1]), Arg.ents[1][2])
    /\ StrictEq(Apply(last.fn, Arg.ents[2][2], Arg.ents[2][1]), Arg.ents[2][2])
    /\ Fresh
    /\ Len(last.trace) = 2

====
